---- MODULE Spec2Model ----
(***************************************************************************)
(* Github-Notifier: the polling / dedup / notify pipeline.                 *)
(*                                                                         *)
(* The repository holds the same pipeline three times:                     *)
(*   impl = "main"     the single-file program src/main.go, whose Start    *)
(*                     makes its own context and listens on sigChan;       *)
(*   impl = "notification"  the package internal/notification              *)
(*                     (src/unnamed/part_003): the fetch, notify and cycle *)
(*                     code of main.go, line for line, with Start taking   *)
(*                     the caller's context;                               *)
(*   impl = "service"  the modular pipeline: service.Service               *)
(*                     (src/unnamed/part_004) calling                      *)
(*                     repository.Repository.FetchLatestIssues and         *)
(*                     notifier.IssueNotifier.NotifyNewIssue.              *)
(*                                                                         *)
(* Time is in milliseconds.  The code reads lastNotifyTime only through    *)
(* time.Since(lastNotifyTime) < notifyDelay, so the model keeps the AGE of *)
(* a time stamp, saturated at notifyDelay, instead of the time stamp.      *)
(***************************************************************************)
EXTENDS Integers, Sequences, FiniteSets, TLC

\* ---------------------------------------------------------------- bounds
MaxID == 3          \* issue IDs are 1..MaxID
MaxBatch == 3       \* longest decoded response body
MaxCycles == 2      \* cycles are counted up to this many
MaxTitle == 120     \* longest issue title
Short == 200        \* an elapsed time shorter than notifyDelay
Minute == 2         \* clock steps in a minute, for the limiter and the ticker
MaxPoll == 4        \* longest POLL_INTERVAL, in clock steps
MaxCycleTime == 5   \* longest call of checkForNewIssues, in clock steps

\* ------------------------------------------------------ program constants
maxRetries == 3
notifyDelay == 500
retryDelay == 5000
maxNotificationLength == 100
burst == 30
minPollInterval == 1 * Minute
defaultPollInterval == 5 * Minute

\* ------------------------------------------------------------- variables
VARIABLES
    impl,             \* which of the three pipelines runs
    goos,             \* runtime.GOOS
    pc,               \* position of the Start goroutine
    lastCheckID,      \* s.lastCheckID
    sinceNotify,      \* time.Since(s.lastNotifyTime), saturated at notifyDelay
    issues,           \* the slice returned by the fetch of this cycle
    idx,              \* position of the range loop in issues (1-based)
    attempt,          \* loop variable of the retry loop
    err,              \* error of the fetch of this cycle, "nil" if none
    cancelled,        \* main: a signal is pending in sigChan; service: ctx is done
    shutdownChan,     \* "open" or "closed"
    ticker,           \* "none" before time.NewTicker in Start, then "running"
    \* history variables (not program state)
    resps,            \* responses of client.Do in the current fetch call
    sleeps,           \* time.Sleep(retryDelay) calls in the current fetch call
    decoded,          \* body decoded by the current fetch call
    lastAtStart,      \* lastCheckID when the current cycle began
    dispatched,       \* sink calls of the current cycle: <<[ID, ok, pr]>>
    cycles,           \* calls of checkForNewIssues so far, counted up to MaxCycles
    succeeded,        \* IDs for which the sink has returned success
    sinceSink,        \* time since the latest sink invocation, saturated
    gap,              \* time between the two latest sink invocations, saturated
    cancelAtStart,    \* cancelled, as it was when the current cycle began
    \* sendNotification's wait and message, checked on their own (SpecMsg)
    msgIssue,         \* the issue sendNotification is called with: [Number, Title]
    message,          \* the message handed to the sink, <<>> before the call
    sinceAtCall,      \* time.Since(s.lastNotifyTime) at the flood check, -1 before
    slept,            \* time slept by the flood check, -1 before
    \* the limiter and the ticker, checked on their own (SpecBucket)
    pollInterval,     \* s.pollInterval, in clock steps
    tokens,           \* tokens of s.limiter, in Minute-ths of a token
    untilTick,        \* clock steps until the ticker's next tick
    tickReady         \* ticker.C holds a tick

msgVars == <<msgIssue, message, sinceAtCall, slept>>

bucketVars == <<pollInterval, tokens, untilTick, tickReady>>

pipeVars == <<impl, goos, pc, lastCheckID, sinceNotify, issues, idx, attempt,
              err, cancelled, shutdownChan, ticker, resps, sleeps, decoded,
              lastAtStart, dispatched, cycles, succeeded, sinceSink, gap,
              cancelAtStart>>

vars == <<pipeVars, msgVars, bucketVars>>

\* The two packages that hold fetchLatestIssues and sendNotification.
Monolith == impl \in {"main", "notification"}

\* The two packages whose Start runs under the caller's context.
ExternalCtx == impl \in {"notification", "service"}

\* --------------------------------------------------------------- helpers
Sat(t) == IF t > notifyDelay THEN notifyDelay ELSE t

Elapsed == {0, Short, notifyDelay}

IDs == 1..MaxID

RECURSIVE SeqMax(_, _)
SeqMax(s, m) == IF s = <<>> THEN m
                ELSE SeqMax(Tail(s), IF Head(s).ID > m THEN Head(s).ID ELSE m)

IDsOf(s) == {s[i].ID : i \in 1..Len(s)}

\* Decoded response bodies: at most MaxBatch entries with distinct IDs, each
\* possibly carrying a non-null pull_request field.
Entries == [ID : IDs, PullRequest : BOOLEAN]
Bodies == {b \in UNION {[1..n -> Entries] : n \in 0..MaxBatch} :
              \A i, j \in 1..Len(b) : i # j => b[i].ID # b[j].ID}

\* Responses of client.Do: a transport error, or a status with a body that
\* decodes or not.
Responses == {[transport |-> TRUE, StatusCode |-> 0, decodes |-> FALSE],
              [transport |-> FALSE, StatusCode |-> 401, decodes |-> FALSE],
              [transport |-> FALSE, StatusCode |-> 500, decodes |-> FALSE],
              [transport |-> FALSE, StatusCode |-> 200, decodes |-> FALSE],
              [transport |-> FALSE, StatusCode |-> 200, decodes |-> TRUE]}

Retryable(r) == r.transport \/ r.StatusCode \notin {200, 401}

\* ------------------------------------------------- dedup (pure functions)
\* checkForNewIssues: the filter `issue.ID > s.lastCheckID`.
IsNewOrEqual(id, last) == id >= last
IsNew(id, last) == id > last

\* checkForNewIssues: `if issue.ID > s.lastCheckID { s.lastCheckID = issue.ID }`.
AdvanceNever(id, last) == last
AdvanceFlipped(id, last) == IF id < last THEN id ELSE last
Advance(id, last) == IF id > last THEN id ELSE last

\* checkForNewIssues: the body of the range loop, as the new lastCheckID.
\* sinkErr is the error of sendNotification / NotifyNewIssue (FALSE when the
\* issue is not new and nothing is sent).
AfterIssueOverwrite(id, last, sinkErr) == IF sinkErr THEN last ELSE id
AfterIssueAdvanceOnError(id, last, sinkErr) ==
    IF id > last THEN Advance(id, last) ELSE last
AfterIssue(id, last, sinkErr) ==
    IF IsNew(id, last)
      THEN IF sinkErr THEN last ELSE Advance(id, last)
      ELSE last

\* -------------------------------------------------- fetch (pure functions)
\* fetchLatestIssues: what one iteration of the retry loop does with the
\* response r when the loop variable is a.
AttemptOutcomeRetryAuth(r, a) ==
    IF r.transport
      THEN IF a = maxRetries THEN "exhausted" ELSE "retry"
      ELSE IF r.StatusCode # 200
             THEN IF a = maxRetries THEN "exhausted" ELSE "retry"
             ELSE IF ~r.decodes THEN "decode" ELSE "ok"
AttemptOutcomeEarlyExhaust(r, a) ==
    IF r.transport
      THEN IF a >= maxRetries - 1 THEN "exhausted" ELSE "retry"
      ELSE IF r.StatusCode = 401
             THEN "auth"
             ELSE IF r.StatusCode # 200
                    THEN IF a >= maxRetries - 1 THEN "exhausted" ELSE "retry"
                    ELSE IF ~r.decodes THEN "decode" ELSE "ok"
AttemptOutcomeNoExhaust(r, a) ==
    IF r.transport
      THEN "retry"
      ELSE IF r.StatusCode = 401
             THEN "auth"
             ELSE IF r.StatusCode # 200
                    THEN "retry"
                    ELSE IF ~r.decodes THEN "decode" ELSE "ok"
AttemptOutcome(r, a) ==
    IF r.transport
      THEN IF a = maxRetries THEN "exhausted" ELSE "retry"
      ELSE IF r.StatusCode = 401
             THEN "auth"
             ELSE IF r.StatusCode # 200
                    THEN IF a = maxRetries THEN "exhausted" ELSE "retry"
                    ELSE IF ~r.decodes THEN "decode" ELSE "ok"

\* Repository.FetchLatestIssues: the single attempt of the modular pipeline.
RepoOutcome(r) ==
    IF r.transport
      THEN "transport"
      ELSE IF r.StatusCode = 401
             THEN "auth"
             ELSE IF r.StatusCode # 200
                    THEN "status"
                    ELSE IF ~r.decodes THEN "decode" ELSE "ok"

\* main.Issue has no pull_request field: decoding drops it.
Decode(b) == [i \in 1..Len(b) |-> [ID |-> b[i].ID]]

\* The PullRequest field of an issue value; main.Issue and the Issue of
\* internal/notification have none.
PullRequestOf(i) == IF "PullRequest" \in DOMAIN i THEN i.PullRequest ELSE FALSE

\* Repository.FetchLatestIssues: keep the entries whose PullRequest is nil.
FilterNothing(b) == b
FilterPullRequests(b) == SelectSeq(b, LAMBDA e : ~e.PullRequest)

\* ------------------------------------------------------------ the sink
\* Outcomes of the platform branch selected by runtime.GOOS.  "ExitError" is
\* cmd.Run() failing with *exec.ExitError, "error" any other failure.
SinkOutcomes(os) ==
    CASE os = "darwin"  -> {"ok", "ExitError", "error"}
      [] os = "windows" -> {"ok", "error"}
      [] os = "linux"   -> {"ok", "error"}
      [] OTHER          -> {"error"}

\* sendNotification: the darwin branch returns before
\* `s.lastNotifyTime = time.Now()` when cmd.Run() fails with an ExitError.
ReturnsEarly(os, out) == os = "darwin" /\ out = "ExitError"

\* sendNotification: `if time.Since(s.lastNotifyTime) < notifyDelay
\* { time.Sleep(notifyDelay) }`, as the time slept.
FloodWaitRemaining(e) == IF e < notifyDelay THEN notifyDelay - e ELSE 0
FloodWait(e) == IF e < notifyDelay THEN notifyDelay ELSE 0

\* ------------------------------------------------------------------ Init
\* The state after NewNotificationService / NewService: lastCheckID 0,
\* lastNotifyTime the zero time (so time.Since of it is not below
\* notifyDelay), shutdownChan open.  The notifier package refuses to build a
\* notifier for an unsupported runtime.GOOS, so the modular pipeline only
\* runs on the three supported ones.
Init ==
    /\ impl \in {"main", "notification", "service"}
    /\ goos \in {"darwin", "windows", "linux", "other"}
    /\ impl = "service" => goos # "other"
    /\ pc = "start"
    /\ lastCheckID = 0
    /\ sinceNotify = notifyDelay
    /\ issues = <<>>
    /\ idx = 0
    /\ attempt = 0
    /\ err = "nil"
    /\ cancelled = FALSE
    /\ shutdownChan = "open"
    /\ ticker = "none"
    /\ cycles = 0
    /\ msgIssue = [Number |-> 0, Title |-> <<>>]
    /\ message = <<>>
    /\ sinceAtCall = -1
    /\ slept = -1
    /\ pollInterval = defaultPollInterval
    /\ tokens = burst * Minute
    /\ untilTick = 0
    /\ tickReady = FALSE
    /\ resps = <<>>
    /\ sleeps = 0
    /\ decoded = <<>>
    /\ lastAtStart = 0
    /\ dispatched = <<>>
    /\ succeeded = {}
    /\ sinceSink = notifyDelay
    /\ gap = notifyDelay
    /\ cancelAtStart = FALSE

\* One more call of checkForNewIssues.
Count(n) == IF n < MaxCycles THEN n + 1 ELSE n

\* Time d passes: both ages grow.
Pass(d) ==
    /\ sinceNotify' = Sat(sinceNotify + d)
    /\ sinceSink' = Sat(sinceSink + d)

\* ------------------------------------------------------------- scheduler
\* Start: the initial call of checkForNewIssues.
StartTickerFirst ==
    /\ pc = "start"
    /\ pc' = "limiter"
    /\ ticker' = "running"
    /\ lastAtStart' = lastCheckID
    /\ cycles' = Count(cycles)
    /\ cancelAtStart' = cancelled
    /\ UNCHANGED <<bucketVars, msgVars, impl, goos, lastCheckID, sinceNotify, issues, idx,
                   attempt, err, cancelled, shutdownChan, resps, sleeps,
                   decoded, dispatched, succeeded, sinceSink, gap>>
StartInitial ==
    /\ pc = "start"
    /\ pc' = "limiter"
    /\ lastAtStart' = lastCheckID
    /\ cycles' = Count(cycles)
    /\ cancelAtStart' = cancelled
    /\ UNCHANGED <<bucketVars, msgVars, ticker, impl, goos, lastCheckID, sinceNotify, issues, idx, attempt,
                   err, cancelled, shutdownChan, resps, sleeps, decoded,
                   dispatched, succeeded, sinceSink, gap>>

\* Start: the select takes `case <-ticker.C` and calls checkForNewIssues.
Tick ==
    /\ pc = "select"
    /\ ticker = "running"
    /\ \E d \in Elapsed : Pass(d)
    /\ pc' = "limiter"
    /\ lastAtStart' = lastCheckID
    /\ cycles' = Count(cycles)
    /\ err' = "nil"
    /\ cancelAtStart' = cancelled
    /\ UNCHANGED <<bucketVars, msgVars, ticker, impl, goos, lastCheckID, issues, idx, attempt,
                   cancelled, shutdownChan, resps, sleeps, decoded,
                   dispatched, succeeded, gap>>

\* Start: the select takes `case sig := <-sigChan` (main) or
\* `case <-ctx.Done()` (service) and Start returns nil.
SelectCancel ==
    /\ pc = "select"
    /\ cancelled
    /\ pc' = "returned"
    /\ UNCHANGED <<bucketVars, msgVars, cancelAtStart, ticker, cycles, impl, goos, lastCheckID, sinceNotify, issues, idx, attempt,
                   err, cancelled, shutdownChan, resps, sleeps, decoded,
                   lastAtStart, dispatched, succeeded, sinceSink, gap>>

\* Start: the select takes `case <-s.shutdownChan` and Start returns nil.
SelectShutdownContinues ==
    /\ pc = "select"
    /\ shutdownChan = "closed"
    /\ UNCHANGED vars
SelectShutdown ==
    /\ pc = "select"
    /\ shutdownChan = "closed"
    /\ pc' = "returned"
    /\ UNCHANGED <<bucketVars, msgVars, cancelAtStart, ticker, cycles, impl, goos, lastCheckID, sinceNotify, issues, idx, attempt,
                   err, cancelled, shutdownChan, resps, sleeps, decoded,
                   lastAtStart, dispatched, succeeded, sinceSink, gap>>

\* A SIGINT/SIGTERM arrives.  main registers sigChan inside Start; the
\* modular main cancels the context it passed to Start.
Cancel ==
    /\ ~cancelled
    /\ pc \notin {"returned", "panic"}
    /\ impl = "main" => pc # "start"
    /\ cancelled' = TRUE
    /\ UNCHANGED <<bucketVars, msgVars, cancelAtStart, ticker, cycles, impl, goos, pc, lastCheckID, sinceNotify, issues, idx,
                   attempt, err, shutdownChan, resps, sleeps, decoded,
                   lastAtStart, dispatched, succeeded, sinceSink, gap>>

\* Stop: close(s.shutdownChan); closing a closed channel panics.
Stop ==
    /\ pc # "panic"
    /\ IF shutdownChan = "closed"
         THEN pc' = "panic" /\ UNCHANGED shutdownChan
         ELSE shutdownChan' = "closed" /\ UNCHANGED pc
    /\ UNCHANGED <<bucketVars, msgVars, cancelAtStart, ticker, cycles, impl, goos, lastCheckID, sinceNotify, issues, idx, attempt,
                   err, cancelled, resps, sleeps, decoded, lastAtStart,
                   dispatched, succeeded, sinceSink, gap>>

\* --------------------------------------------------------------- fetching
\* s.limiter.Wait(ctx): fails when ctx is done.  The context of main is
\* created inside Start and cancelled only when Start returns.
LimiterWaitIgnoresCtx ==
    /\ pc = "limiter"
    /\ pc' = "http"
    /\ attempt' = 0
    /\ UNCHANGED <<bucketVars, msgVars, cancelAtStart, ticker, cycles, impl, goos, lastCheckID,
                   sinceNotify, issues, idx, err, cancelled, shutdownChan,
                   resps, sleeps, decoded, lastAtStart, dispatched, succeeded,
                   sinceSink, gap>>
LimiterWait ==
    /\ pc = "limiter"
    /\ IF ExternalCtx /\ cancelled
         THEN /\ err' = "rate limit"
              /\ pc' = "cycleEnd"
         ELSE /\ pc' = "http"
              /\ UNCHANGED err
    /\ attempt' = 0
    /\ UNCHANGED <<bucketVars, msgVars, cancelAtStart, ticker, cycles, impl, goos, lastCheckID, sinceNotify, issues, idx,
                   cancelled, shutdownChan, resps, sleeps, decoded,
                   lastAtStart, dispatched, succeeded, sinceSink, gap>>

\* fetchLatestIssues: one iteration of the retry loop, with the sleep that
\* follows a retryable failure; a loop that runs out of iterations falls
\* through to `return issues, nil` with issues still nil.  The request
\* carries ctx: once ctx is done client.Do fails.
HttpAttempt ==
    /\ pc = "http"
    /\ Monolith
    /\ \E r \in Responses, d \in Elapsed :
         LET out == AttemptOutcome(r, attempt) IN
         /\ (ExternalCtx /\ cancelled) => r.transport
         /\ resps' = Append(resps, r)
         /\ IF out = "retry"
              THEN /\ sleeps' = sleeps + 1
                   /\ attempt' = attempt + 1
                   /\ Pass(d + retryDelay)
                   /\ pc' = IF attempt + 1 <= maxRetries THEN "http" ELSE "fetched"
                   /\ UNCHANGED <<issues, decoded, err>>
              ELSE /\ Pass(d)
                   /\ pc' = "fetched"
                   /\ UNCHANGED <<sleeps, attempt>>
                   /\ IF out = "ok"
                        THEN \E b \in Bodies :
                               /\ decoded' = b
                               /\ issues' = Decode(b)
                               /\ UNCHANGED err
                        ELSE /\ err' = out
                             /\ UNCHANGED <<issues, decoded>>
    /\ UNCHANGED <<bucketVars, msgVars, cancelAtStart, ticker, cycles, impl, goos, lastCheckID, idx, cancelled, shutdownChan,
                   lastAtStart, dispatched, succeeded, gap>>

\* Repository.FetchLatestIssues: one request, no retry; a done context makes
\* client.Do fail.
RepoFetch ==
    /\ pc = "http"
    /\ impl = "service"
    /\ \E r \in Responses, d \in Elapsed :
         LET out == RepoOutcome(r) IN
         /\ cancelled => r.transport
         /\ resps' = Append(resps, r)
         /\ Pass(d)
         /\ pc' = "fetched"
         /\ IF out = "ok"
              THEN \E b \in Bodies :
                     /\ decoded' = b
                     /\ issues' = FilterPullRequests(b)
                     /\ UNCHANGED err
              ELSE /\ err' = out
                   /\ UNCHANGED <<issues, decoded>>
    /\ UNCHANGED <<bucketVars, msgVars, cancelAtStart, ticker, cycles, impl, goos, lastCheckID, idx, attempt, cancelled,
                   shutdownChan, sleeps, lastAtStart, dispatched, succeeded,
                   gap>>

\* checkForNewIssues: `if err != nil { return err }`, else the range loop
\* starts.
FetchReturn ==
    /\ pc = "fetched"
    /\ IF err = "nil" /\ issues # <<>>
         THEN pc' = "dispatch" /\ idx' = 1
         ELSE pc' = "cycleEnd" /\ UNCHANGED idx
    /\ resps' = <<>>
    /\ sleeps' = 0
    /\ decoded' = <<>>
    /\ UNCHANGED <<bucketVars, msgVars, cancelAtStart, ticker, cycles, impl, goos, lastCheckID, sinceNotify, issues, attempt, err,
                   cancelled, shutdownChan, lastAtStart, dispatched,
                   succeeded, sinceSink, gap>>

\* ------------------------------------------------------------ dispatching
\* Where the range loop goes after the issue at idx.
LoopNextChecksCtx ==
    /\ idx' = idx + 1
    /\ pc' = IF idx = Len(issues) \/ cancelled THEN "cycleEnd" ELSE "dispatch"
LoopNext ==
    /\ idx' = idx + 1
    /\ pc' = IF idx = Len(issues) THEN "cycleEnd" ELSE "dispatch"

\* The range loop walking the batch from its last element to its first.
NotifyIssueReversed ==
    /\ pc = "dispatch"
    /\ IsNew(issues[Len(issues) + 1 - idx].ID, lastCheckID)
    /\ \E d \in Elapsed, ds \in Elapsed, out \in SinkOutcomes(goos) :
         LET id == issues[Len(issues) + 1 - idx].ID
             e == Sat(sinceNotify + d)
             w == IF Monolith THEN FloodWait(e) ELSE 0
         IN
         /\ gap' = Sat(sinceSink + d + w)
         /\ sinceSink' = Sat(ds)
         /\ sinceNotify' = IF Monolith /\ ~ReturnsEarly(goos, out)
                             THEN 0
                             ELSE Sat(e + w + ds)
         /\ dispatched' = Append(dispatched,
                                  [ID |-> id, ok |-> out = "ok",
                                   pr |-> PullRequestOf(issues[Len(issues) + 1 - idx])])
         /\ succeeded' = IF out = "ok" THEN succeeded \cup {id} ELSE succeeded
         /\ lastCheckID' = AfterIssue(id, lastCheckID, out # "ok")
    /\ LoopNext
    /\ UNCHANGED <<bucketVars, msgVars, cancelAtStart, ticker, cycles, impl, goos, issues, attempt, err, cancelled, shutdownChan,
                   resps, sleeps, decoded, lastAtStart>>

\* checkForNewIssues: one iteration of the range loop for a new issue.
\* main: sendNotification (flood wait, platform switch, lastNotifyTime);
\* service: IssueNotifier.NotifyNewIssue, which calls Notifier.Notify at once
\* and never touches lastNotifyTime.  d is the time since the previous step,
\* ds the time the sink takes.
NotifyIssue ==
    /\ pc = "dispatch"
    /\ IsNew(issues[idx].ID, lastCheckID)
    /\ \E d \in Elapsed, ds \in Elapsed, out \in SinkOutcomes(goos) :
         LET id == issues[idx].ID
             e == Sat(sinceNotify + d)
             w == IF Monolith THEN FloodWait(e) ELSE 0
         IN
         /\ gap' = Sat(sinceSink + d + w)
         /\ sinceSink' = Sat(ds)
         /\ sinceNotify' = IF Monolith /\ ~ReturnsEarly(goos, out)
                             THEN 0
                             ELSE Sat(e + w + ds)
         /\ dispatched' = Append(dispatched,
                                  [ID |-> id, ok |-> out = "ok",
                                   pr |-> PullRequestOf(issues[idx])])
         /\ succeeded' = IF out = "ok" THEN succeeded \cup {id} ELSE succeeded
         /\ lastCheckID' = AfterIssue(id, lastCheckID, out # "ok")
    /\ LoopNext
    /\ UNCHANGED <<bucketVars, msgVars, cancelAtStart, ticker, cycles, impl, goos, issues, attempt, err, cancelled, shutdownChan,
                   resps, sleeps, decoded, lastAtStart>>

\* checkForNewIssues: one iteration of the range loop for an issue that is
\* not new.
SkipIssue ==
    /\ pc = "dispatch"
    /\ ~IsNew(issues[idx].ID, lastCheckID)
    /\ lastCheckID' = AfterIssue(issues[idx].ID, lastCheckID, FALSE)
    /\ LoopNext
    /\ UNCHANGED <<bucketVars, msgVars, cancelAtStart, ticker, cycles, impl, goos, sinceNotify, issues, attempt, err, cancelled,
                   shutdownChan, resps, sleeps, decoded, lastAtStart,
                   dispatched, succeeded, sinceSink, gap>>

\* Start: checkForNewIssues has returned (its error, if any, is logged) and
\* the loop reaches the select; after the initial check, time.NewTicker comes
\* first.  err keeps the logged error until the next cycle begins.
CycleDoneReturnsError ==
    /\ pc = "cycleEnd"
    /\ pc' = IF err = "nil" THEN "select" ELSE "returned"
    /\ ticker' = "running"
    /\ issues' = <<>>
    /\ idx' = 0
    /\ dispatched' = <<>>
    /\ lastAtStart' = lastCheckID
    /\ cancelAtStart' = FALSE
    /\ UNCHANGED <<bucketVars, msgVars, cycles, impl, goos, lastCheckID, sinceNotify,
                   attempt, err, cancelled, shutdownChan, resps, sleeps,
                   decoded, succeeded, sinceSink, gap>>
CycleDone ==
    /\ pc = "cycleEnd"
    /\ pc' = "select"
    /\ ticker' = "running"
    /\ issues' = <<>>
    /\ idx' = 0
    /\ dispatched' = <<>>
    /\ lastAtStart' = lastCheckID
    /\ cancelAtStart' = FALSE
    /\ UNCHANGED <<bucketVars, msgVars, cycles, impl, goos, lastCheckID, sinceNotify, attempt, err, cancelled,
                   shutdownChan, resps, sleeps, decoded, succeeded, sinceSink,
                   gap>>

Next ==
    \/ StartInitial
    \/ Tick
    \/ SelectCancel
    \/ SelectShutdown
    \/ Cancel
    \/ Stop
    \/ LimiterWait
    \/ HttpAttempt
    \/ RepoFetch
    \/ FetchReturn
    \/ NotifyIssue
    \/ SkipIssue
    \/ CycleDone

Spec == Init /\ [][Next]_vars

TypeOK ==
    /\ impl \in {"main", "notification", "service"}
    /\ ticker \in {"none", "running"}
    /\ cycles \in 0..MaxCycles
    /\ lastCheckID \in 0..MaxID
    /\ sinceNotify \in 0..notifyDelay
    /\ sinceSink \in 0..notifyDelay
    /\ gap \in 0..notifyDelay
    /\ attempt \in 0..(maxRetries + 1)
    /\ Len(issues) <= MaxBatch

\* ================================================================ claims
SentNow == Len(dispatched') > Len(dispatched)
SentID == dispatched'[Len(dispatched')].ID
AllOk == \A i \in 1..Len(dispatched) : dispatched[i].ok
Terminal(r) == ~r.transport /\ (r.StatusCode = 401 \/ (r.StatusCode = 200 /\ ~r.decodes))
AllRetryable(s) == \A i \in 1..Len(s) : Retryable(s[i])
InFetch == Monolith /\ pc \in {"http", "fetched"}

\* C1: at the end of a cycle whose fetch succeeded, every issue of the batch
\* whose ID is above the lastCheckID the cycle began with has been passed to
\* the sink, whatever the order of the batch.
C1_AllNewDispatched ==
    (pc = "cycleEnd" /\ err = "nil") =>
        \A i \in 1..Len(issues) :
            issues[i].ID > lastAtStart => issues[i].ID \in IDsOf(dispatched)

\* C2: no step of any cycle decreases lastCheckID.
C2_Monotonic == [][lastCheckID' >= lastCheckID]_vars

\* C2 witness: a cycle with a sink failure has ended and lastCheckID rose.
C2_Witness ==
    /\ pc = "cycleEnd"
    /\ lastCheckID > lastAtStart
    /\ ~AllOk

\* C3: an issue is passed to the sink only when its ID is strictly above
\* lastCheckID as it is when the issue is filtered.
C3_OnlyNewDispatched == [][SentNow => SentID > lastCheckID]_vars

\* C3 witness: a cycle has ended in which one issue was sent and another was
\* filtered out.
C3_Witness ==
    /\ pc = "cycleEnd"
    /\ Len(dispatched) >= 1
    /\ Len(dispatched) < Len(issues)

\* C4: an ID for which the sink has returned success is never passed to the
\* sink again, in the same cycle or a later one.
C4_NoResend == [][SentNow => SentID \notin succeeded]_vars

\* C4 witness: a later batch contains an issue the sink accepted in an
\* earlier cycle, and the loop is about to filter it.
C4_Witness ==
    /\ pc = "dispatch"
    /\ issues[idx].ID \in succeeded
    /\ issues[idx].ID <= lastAtStart

\* C5: after a cycle in which every sink call succeeded, lastCheckID is the
\* maximum of its value at the start of the cycle and the IDs of the batch.
C5_MaxUpdate ==
    (pc = "cycleEnd" /\ err = "nil" /\ AllOk) =>
        lastCheckID = SeqMax(issues, lastAtStart)

\* C5 witness: a batch shaped like [50, 70, 60], above the old lastCheckID,
\* has been processed with every sink call succeeding.
C5_Witness ==
    /\ pc = "cycleEnd"
    /\ err = "nil"
    /\ AllOk
    /\ Len(issues) = 3
    /\ lastAtStart < issues[1].ID
    /\ issues[1].ID < issues[3].ID
    /\ issues[3].ID < issues[2].ID

\* C6: in sendNotification, two consecutive sink invocations are at least
\* notifyDelay apart, whatever the sink returns and on every platform.
C6_FloodGap == Monolith => gap >= notifyDelay

\* C7: in the modular pipeline, two consecutive sink invocations are at
\* least NotifyDelay apart.
C7_ModularGap == impl = "service" => gap >= notifyDelay

\* C8: a 401, or a 200 whose body does not decode, is the last attempt of
\* its fetch: the fetch has returned the matching error, and has slept only
\* after the attempts before it.
C8_TerminalImmediate ==
    InFetch =>
        \A i \in 1..Len(resps) :
            Terminal(resps[i]) =>
                /\ i = Len(resps)
                /\ pc = "fetched"
                /\ err = (IF resps[i].StatusCode = 401 THEN "auth" ELSE "decode")
                /\ sleeps = i - 1

\* C8 witness: a fetch has returned on a 401 that came after a retry.
C8_Witness ==
    /\ impl = "main"
    /\ pc = "fetched"
    /\ Len(resps) = 2
    /\ resps[2].StatusCode = 401

\* C9: after k <= maxRetries retryable failures the loop is still running,
\* having slept k times; and a decodable 200 that follows them ends the
\* fetch with the decoded issues, k+1 attempts and k sleeps.
C9_RetryThenSuccess ==
    InFetch =>
        /\ (AllRetryable(resps) /\ Len(resps) <= maxRetries) =>
              (pc = "http" /\ attempt = Len(resps) /\ sleeps = Len(resps))
        /\ (/\ pc = "fetched"
            /\ resps # <<>>
            /\ AllRetryable(SubSeq(resps, 1, Len(resps) - 1))
            /\ Len(resps) <= maxRetries + 1
            /\ resps[Len(resps)].StatusCode = 200
            /\ resps[Len(resps)].decodes) =>
              /\ err = "nil"
              /\ issues = Decode(decoded)
              /\ sleeps = Len(resps) - 1

\* C9 witness: a fetch has succeeded on its last allowed attempt.
C9_Witness ==
    /\ impl = "main"
    /\ pc = "fetched"
    /\ Len(resps) = maxRetries + 1
    /\ err = "nil"
    /\ issues # <<>>

\* C10: a fetch makes at most maxRetries+1 attempts; when all of them fail
\* retryably it returns an error after maxRetries sleeps, and a fetch never
\* returns success without a decoded 200.
C10_BoundedAttempts ==
    InFetch =>
        /\ Len(resps) <= maxRetries + 1
        /\ (pc = "fetched" /\ AllRetryable(resps)) =>
              /\ Len(resps) = maxRetries + 1
              /\ err = "exhausted"
              /\ sleeps = maxRetries

\* C10 witness: a fetch has returned after maxRetries+1 retryable failures.
C10_Witness ==
    /\ impl = "main"
    /\ pc = "fetched"
    /\ Len(resps) = maxRetries + 1
    /\ AllRetryable(resps)

\* ------------------------------------------------------ claims C11 .. C20
\* C11: in the modular pipeline a fetch that fails at the transport level or
\* with a status other than 200 and 401 has made maxRetries+1 attempts
\* before the cycle is aborted.
C11_ModularFetchRetried ==
    (impl = "service" /\ pc = "fetched" /\ err \in {"transport", "status"}) =>
        Len(resps) = maxRetries + 1

\* The positions of a decoded body whose pull_request field is null.
KeptIdx(b) == {i \in 1..Len(b) : ~b[i].PullRequest}

\* C12: Repository.FetchLatestIssues returns exactly the entries of the
\* decoded body without a pull_request, in their original order, and the
\* modular Service hands no pull-request entry to the sink.
C12_PullRequestsExcluded ==
    impl = "service" =>
        /\ \A i \in 1..Len(dispatched) : ~dispatched[i].pr
        /\ (pc = "fetched" /\ err = "nil") =>
              /\ Len(issues) = Cardinality(KeptIdx(decoded))
              /\ \A k \in 1..Len(issues) :
                    \E i \in KeptIdx(decoded) :
                        /\ Cardinality({j \in KeptIdx(decoded) : j <= i}) = k
                        /\ issues[k] = decoded[i]

\* C12 witness: a body with a pull request between two issues has been
\* fetched.
C12_Witness ==
    /\ impl = "service"
    /\ pc = "fetched"
    /\ err = "nil"
    /\ Len(decoded) = 3
    /\ decoded[2].PullRequest
    /\ Len(issues) = 2

\* ------------------------------------------- sendNotification's message
\* A Go string is a sequence of bytes, here of one-character strings; len
\* and slicing count bytes.
DigitChars == <<"0", "1", "2", "3", "4", "5", "6", "7", "8", "9">>

\* fmt's %d of a non-negative int.
RECURSIVE Itoa(_)
Itoa(n) == IF n < 10 THEN <<DigitChars[n + 1]>>
           ELSE Append(Itoa(n \div 10), DigitChars[(n % 10) + 1])

\* sendNotification: `fmt.Sprintf("#%d: %s", issue.Number, issue.Title)`.
FormatIssueMessage(i) == <<"#">> \o Itoa(i.Number) \o <<":", " ">> \o i.Title

\* sendNotification: `if len(message) > maxNotificationLength
\* { message = message[:maxNotificationLength-3] + "..." }`.
TruncateKeepsAll(m) ==
    IF Len(m) > maxNotificationLength
      THEN SubSeq(m, 1, maxNotificationLength) \o <<".", ".", ".">>
      ELSE m
Truncate(m) ==
    IF Len(m) > maxNotificationLength
      THEN SubSeq(m, 1, maxNotificationLength - 3) \o <<".", ".", ".">>
      ELSE m

\* Titles of every length up to MaxTitle: one whose bytes differ from their
\* neighbours, one made of dots only.
Letters == <<"a", "b", "c", "d", "e", " ", "#">>
CycTitle(n) == [i \in 1..n |-> Letters[((i - 1) % Len(Letters)) + 1]]
DotTitle(n) == [i \in 1..n |-> "."]
Titles == {CycTitle(n) : n \in 0..MaxTitle} \cup {DotTitle(n) : n \in 0..MaxTitle}
Numbers == {7, 42, 12345}

\* Times since lastNotifyTime at the call of sendNotification.
SinceLast == {0, 1, Short, notifyDelay - 1, notifyDelay}

\* sendNotification is about to be called with any of these issues, any of
\* these times after lastNotifyTime was set.
MsgInit ==
    /\ impl \in {"main", "notification"}
    /\ goos \in {"darwin", "windows", "linux", "other"}
    /\ pc = "dispatch"
    /\ lastCheckID = 0
    /\ sinceNotify \in SinceLast
    /\ issues = <<>>
    /\ idx = 0
    /\ attempt = 0
    /\ err = "nil"
    /\ cancelled = FALSE
    /\ shutdownChan = "open"
    /\ ticker = "none"
    /\ cycles = 1
    /\ resps = <<>>
    /\ sleeps = 0
    /\ decoded = <<>>
    /\ lastAtStart = 0
    /\ dispatched = <<>>
    /\ succeeded = {}
    /\ sinceSink = notifyDelay
    /\ gap = notifyDelay
    /\ cancelAtStart = FALSE
    /\ msgIssue \in [Number : Numbers, Title : Titles]
    /\ message = <<>>
    /\ sinceAtCall = -1
    /\ slept = -1
    /\ pollInterval = defaultPollInterval
    /\ tokens = burst * Minute
    /\ untilTick = 0
    /\ tickReady = FALSE

\* sendNotification: the flood check, and the time that passes in its sleep.
FloodCheck ==
    /\ slept = -1
    /\ sinceAtCall' = sinceNotify
    /\ slept' = FloodWait(sinceNotify)
    /\ sinceNotify' = Sat(sinceNotify + FloodWait(sinceNotify))
    /\ UNCHANGED <<impl, goos, pc, lastCheckID, issues, idx, attempt, err,
                   cancelled, shutdownChan, ticker, resps, sleeps, decoded,
                   lastAtStart, dispatched, cycles, succeeded, sinceSink, gap,
                   cancelAtStart, msgIssue, message, bucketVars>>

\* sendNotification: after the flood check the message is built and
\* truncated, then handed to the platform switch.
BuildMessage ==
    /\ slept # -1
    /\ message = <<>>
    /\ message' = Truncate(FormatIssueMessage(msgIssue))
    /\ UNCHANGED <<pipeVars, msgIssue, sinceAtCall, slept, bucketVars>>

MsgNext ==
    \/ FloodCheck
    \/ BuildMessage

SpecMsg == MsgInit /\ [][MsgNext]_vars

\* C13: the message handed to the sink is "#<number>: <title>" itself when
\* that is at most maxNotificationLength long, and otherwise its first
\* maxNotificationLength-3 bytes followed by "...", maxNotificationLength
\* long in all.
C13_Truncation ==
    message # <<>> =>
        LET f == FormatIssueMessage(msgIssue) IN
        /\ Len(message) <= maxNotificationLength
        /\ Len(f) <= maxNotificationLength => message = f
        /\ Len(f) > maxNotificationLength =>
              /\ Len(message) = maxNotificationLength
              /\ \A i \in 1..(maxNotificationLength - 3) : message[i] = f[i]
              /\ \A i \in (maxNotificationLength - 2)..maxNotificationLength :
                    message[i] = "."

\* C13 witness: a formatted message of length 120 has been cut to 100.
C13_Witness ==
    /\ Len(FormatIssueMessage(msgIssue)) = 120
    /\ Len(message) = 100
    /\ message[100] = "."
    /\ message[97] # "."

\* ------------------------------------------------------ the scheduler loop
\* A call of checkForNewIssues begins in this step.
CycleBegins == pc # "limiter" /\ pc' = "limiter"

\* A stop has been asked for: a signal or cancellation, or Stop.
StopRequested == cancelled \/ shutdownChan = "closed"

\* C14: the ticker is created when exactly one call of checkForNewIssues has
\* returned, whatever it returned, and no tick is serviced before that.
C14_InitialCycleFirst ==
    [][/\ (ticker = "none" /\ ticker' = "running") =>
              (pc = "cycleEnd" /\ cycles = 1)
       /\ ticker' = "none" => (cycles' <= 1 /\ pc' \notin {"select", "returned"})
       /\ (CycleBegins /\ pc # "start") => ticker = "running"]_vars

\* C14 witness: the initial cycle failed and the loop waits with its ticker.
C14_Witness ==
    /\ pc = "select"
    /\ ticker = "running"
    /\ cycles = 1
    /\ err # "nil"

\* C15: Start returns only from the select, on the signal/cancellation or
\* the shutdown channel; a cycle that has ended, failed or not, leads back to
\* the select, where the tick case can be taken again.
C15_ErrorsContained ==
    /\ [](pc = "select" => ENABLED Tick)
    /\ [][/\ (pc # "returned" /\ pc' = "returned") =>
                 (pc = "select" /\ StopRequested)
          /\ (pc = "cycleEnd" /\ pc' # "cycleEnd") => pc' \in {"select", "panic"}]_vars

\* C15 witness: a tick-driven cycle has failed and the loop is back at the
\* select with nothing asking it to stop.
C15_Witness ==
    /\ pc = "select"
    /\ cycles = MaxCycles
    /\ err # "nil"
    /\ ~StopRequested

\* C16: once a signal, a cancellation or a Stop has been issued, no call of
\* checkForNewIssues begins.
C16_NoCycleAfterStop == [][CycleBegins => ~StopRequested]_vars

\* Every step of Start that is not a case of the select.
Progress ==
    \/ StartInitial
    \/ LimiterWait
    \/ HttpAttempt
    \/ RepoFetch
    \/ FetchReturn
    \/ NotifyIssue
    \/ SkipIssue
    \/ CycleDone

\* Termination does not read runtime.GOOS, and the darwin branch has every
\* sink outcome the other branches have (SinkOutcomes), so every run on
\* another platform is, but for goos, a run on darwin.
LiveInit == Init /\ goos = "darwin"

\* The goroutine of Start keeps running, and a case of the select that is
\* ready again and again is taken in the end (Go picks among the ready cases
\* at random).
SpecLive ==
    /\ LiveInit
    /\ [][Next]_vars
    /\ WF_vars(Progress)
    /\ SF_vars(SelectCancel)
    /\ SF_vars(SelectShutdown)

\* C17: once Stop has been called or the context is cancelled, Start returns
\* in the end (unless a second Stop panics first).
C17_EventuallyReturns == StopRequested ~> (pc \in {"returned", "panic"})

\* C17 witness: Start has returned on the shutdown channel after a failed
\* tick-driven cycle.
C17_Witness ==
    /\ pc = "returned"
    /\ shutdownChan = "closed"
    /\ ~cancelled
    /\ cycles = MaxCycles
    /\ err # "nil"

\* The lastCheckID that position i of the batch is filtered against: the
\* start value raised by the earlier issues the sink accepted.
RECURSIVE FilterBase(_)
FilterBase(i) ==
    IF i = 1 THEN lastAtStart
    ELSE LET b == FilterBase(i - 1)
             id == issues[i - 1].ID
         IN IF id > b /\ \E k \in 1..Len(dispatched) :
                            dispatched[k].ID = id /\ dispatched[k].ok
              THEN id ELSE b

\* C18: a sink error leaves lastCheckID as it is and the loop goes on to the
\* next issue; at the end of the cycle, which returns no error, every issue
\* that was new when its turn came has been handed to the sink.
C18_SinkErrorTolerated ==
    /\ []((pc = "cycleEnd" /\ err = "nil") =>
             \A i \in 1..Len(issues) :
                 issues[i].ID > FilterBase(i) => issues[i].ID \in IDsOf(dispatched))
    /\ [][(SentNow /\ ~dispatched'[Len(dispatched')].ok) =>
             /\ lastCheckID' = lastCheckID
             /\ err' = "nil"
             /\ idx' = idx + 1
             /\ pc' = IF idx < Len(issues) THEN "dispatch" ELSE "cycleEnd"]_vars

\* C18 witness: the sink failed for the first issue and the second was sent.
C18_Witness ==
    /\ pc = "cycleEnd"
    /\ err = "nil"
    /\ Len(dispatched) >= 2
    /\ ~dispatched[1].ok
    /\ dispatched[2].ok

\* C19: sendNotification returns with lastNotifyTime set to the current
\* time, whatever the sink returned and on every platform branch.
C19_NotifyTimeSet == [][(SentNow /\ Monolith) => sinceNotify' = 0]_vars

\* C20: a cycle whose fetch fails calls no sink and leaves lastCheckID and
\* lastNotifyTime alone; a limiter wait under a cancelled context is followed
\* by no HTTP request.
C20_FailedFetchNoEffect ==
    /\ []((pc = "cycleEnd" /\ err # "nil") =>
             (dispatched = <<>> /\ lastCheckID = lastAtStart /\ issues = <<>>))
    /\ [][/\ pc \in {"limiter", "http", "fetched"} =>
                 /\ lastCheckID' = lastCheckID
                 /\ dispatched' = dispatched
                 /\ sinceNotify' >= sinceNotify
          /\ (pc = "limiter" /\ ExternalCtx /\ cancelled) =>
                 (pc' \in {"limiter", "cycleEnd", "panic"} /\ resps' = <<>>)]_vars

\* C20 witness: a cycle was aborted by the limiter after issues had been
\* notified in an earlier cycle.
C20_Witness ==
    /\ pc = "cycleEnd"
    /\ err = "rate limit"
    /\ lastCheckID > 0

\* ------------------------------------------------------ claims C21 .. C26
\* The position of the issue with this ID in the batch of the cycle.
PosOf(id) == CHOOSE i \in 1..Len(issues) : issues[i].ID = id

\* C21: the issues handed to the sink in a cycle are issues of the fetched
\* batch, and an issue handed over before another precedes it in the batch.
C21_DispatchOrder ==
    /\ \A k \in 1..Len(dispatched) : dispatched[k].ID \in IDsOf(issues)
    /\ \A k, l \in 1..Len(dispatched) :
          k < l => PosOf(dispatched[k].ID) < PosOf(dispatched[l].ID)

\* C21 witness: of a batch of three, the first issue went to the sink, which
\* failed, and then one with a smaller ID did.
C21_Witness ==
    /\ pc = "cycleEnd"
    /\ Len(issues) = 3
    /\ Len(dispatched) >= 2
    /\ dispatched[1].ID = issues[1].ID
    /\ dispatched[1].ID > dispatched[2].ID

\* C22: when sendNotification is called less than notifyDelay after
\* lastNotifyTime it sleeps the remaining notifyDelay - e and no longer, and
\* otherwise it does not sleep.
C22_WaitsRemaining ==
    slept # -1 =>
        slept = (IF sinceAtCall < notifyDelay THEN notifyDelay - sinceAtCall ELSE 0)

\* C22 as amended: called less than notifyDelay after lastNotifyTime,
\* sendNotification sleeps a whole notifyDelay, so that the sink is reached
\* notifyDelay + e after lastNotifyTime; otherwise it does not sleep.
C22_WaitsFullDelay ==
    slept # -1 =>
        /\ slept = (IF sinceAtCall < notifyDelay THEN notifyDelay ELSE 0)
        /\ sinceNotify = Sat(sinceAtCall + slept)
        /\ sinceNotify >= notifyDelay

\* C22 witness: called Short after lastNotifyTime, sendNotification has
\* slept notifyDelay and built its message.
C22_Witness ==
    /\ sinceAtCall = Short
    /\ slept = notifyDelay
    /\ message # <<>>

\* A cycle is in progress, and a cancellation was signalled after it began.
MidCycleCancel ==
    /\ pc \in {"limiter", "http", "fetched", "dispatch", "cycleEnd"}
    /\ cancelled
    /\ ~cancelAtStart

\* The range loop takes the issue at idx: it is sent exactly when it is new,
\* and the loop moves to the next issue or ends after the last one.
DispatchStepAsUsual ==
    /\ idx' = idx + 1
    /\ SentNow <=> issues[idx].ID > lastCheckID
    /\ SentNow => SentID = issues[idx].ID
    /\ pc' = IF idx = Len(issues) THEN "cycleEnd" ELSE "dispatch"

\* C23: a cancellation signalled during a cycle does not alter the cycle:
\* the limiter wait completes and the fetch goes on to its request, the
\* dispatch loop handles every remaining issue, and Start does not return
\* before the cycle is over.
C23_CancelDoesNotAlterCycle ==
    [][MidCycleCancel =>
          /\ pc' # "returned"
          /\ (pc = "limiter" /\ pc' \notin {"limiter", "panic"}) =>
                 (pc' = "http" /\ err' = err)
          /\ (pc = "dispatch" /\ idx' # idx) => DispatchStepAsUsual]_vars

\* C23 as amended: a cancellation signalled during a cycle never stops the
\* dispatch loop and never makes Start return before the next select.  In
\* main.go, whose context is Start's own, it changes nothing else either.
\* Where Start runs under the caller's context, a limiter wait after the
\* cancellation fails with no request made, every request after it fails,
\* and the retry loop runs to its last attempt.
C23_CancelSeenAtSelect ==
    [][MidCycleCancel =>
          /\ pc' # "returned"
          /\ (pc = "limiter" /\ pc' \notin {"limiter", "panic"}) =>
                 IF ExternalCtx
                   THEN pc' = "cycleEnd" /\ err' = "rate limit" /\ resps' = <<>>
                   ELSE pc' = "http" /\ err' = err
          /\ (ExternalCtx /\ Len(resps') > Len(resps)) =>
                 /\ resps'[Len(resps')].transport
                 /\ (Monolith /\ pc' = "fetched") =>
                        (attempt = maxRetries /\ err' = "exhausted")
          /\ (pc = "dispatch" /\ idx' # idx) => DispatchStepAsUsual]_vars

\* C23 witness: under the caller's context, a fetch whose first attempt got
\* a 500 was cancelled and made its remaining attempts, all failing.
C23_Witness ==
    /\ impl = "notification"
    /\ pc = "fetched"
    /\ MidCycleCancel
    /\ err = "exhausted"
    /\ Len(resps) = maxRetries + 1
    /\ resps[1].StatusCode = 500
    /\ \A i \in 2..Len(resps) : resps[i].transport

\* C24: an issue that was handed to the sink, and that no sink call has
\* accepted yet, has an ID above lastCheckID, so that it is new again in the
\* next cycle that fetches it.
C24_FailedStaysNew ==
    \A k \in 1..Len(dispatched) :
        dispatched[k].ID \notin succeeded => lastCheckID < dispatched[k].ID

\* C25: Stop may be called again on the same service: the second call
\* returns without a panic.
C25_StopTwice == pc # "panic"

\* ------------------------------------------- the limiter and the ticker
\* NewNotificationService / the modular main: a POLL_INTERVAL below
\* minPollInterval is raised to it.
ClampPollNone(d) == d
ClampPoll(d) == IF d < minPollInterval THEN minPollInterval ELSE d

\* rate.Limiter with rate.Every(time.Minute): a token a minute, up to burst.
Refill(t, d) == IF t + d > burst * Minute THEN burst * Minute ELSE t + d

\* time.Ticker after d clock steps: a tick that falls due goes into ticker.C,
\* which holds one tick; ticks the receiver is too slow for are dropped.
TickerAfter(d) ==
    IF ticker = "none"
      THEN UNCHANGED <<untilTick, tickReady>>
      ELSE IF d < untilTick
             THEN untilTick' = untilTick - d /\ UNCHANGED tickReady
             ELSE /\ untilTick' = pollInterval - ((d - untilTick) % pollInterval)
                  /\ tickReady' = TRUE

\* The rest of the pipeline's state plays no part here.
BucketFrame ==
    UNCHANGED <<impl, goos, lastCheckID, sinceNotify, issues, idx, attempt,
                err, cancelled, shutdownChan, resps, sleeps, decoded,
                lastAtStart, dispatched, succeeded, sinceSink, gap,
                cancelAtStart, msgVars, pollInterval>>

\* The service is built with any POLL_INTERVAL, or none, and a full bucket.
BucketInit ==
    /\ impl \in {"main", "notification", "service"}
    /\ goos = "linux"
    /\ pc = "start"
    /\ lastCheckID = 0
    /\ sinceNotify = notifyDelay
    /\ issues = <<>>
    /\ idx = 0
    /\ attempt = 0
    /\ err = "nil"
    /\ cancelled = FALSE
    /\ shutdownChan = "open"
    /\ ticker = "none"
    /\ cycles = 0
    /\ resps = <<>>
    /\ sleeps = 0
    /\ decoded = <<>>
    /\ lastAtStart = 0
    /\ dispatched = <<>>
    /\ succeeded = {}
    /\ sinceSink = notifyDelay
    /\ gap = notifyDelay
    /\ cancelAtStart = FALSE
    /\ msgIssue = [Number |-> 0, Title |-> <<>>]
    /\ message = <<>>
    /\ sinceAtCall = -1
    /\ slept = -1
    /\ pollInterval \in {ClampPoll(d) : d \in 1..MaxPoll} \cup {defaultPollInterval}
    /\ tokens = burst * Minute
    /\ untilTick = 0
    /\ tickReady = FALSE

\* Start: the initial call of checkForNewIssues.
BucketStart ==
    /\ pc = "start"
    /\ pc' = "limiter"
    /\ cycles' = Count(cycles)
    /\ UNCHANGED <<ticker, tokens, untilTick, tickReady>>
    /\ BucketFrame

\* s.limiter.Wait(ctx): takes a token, after waiting for one if the bucket
\* holds less than a token.
BucketWait ==
    /\ pc = "limiter"
    /\ pc' = "http"
    /\ IF tokens >= Minute
         THEN /\ tokens' = tokens - Minute
              /\ UNCHANGED <<untilTick, tickReady>>
         ELSE /\ tokens' = 0
              /\ TickerAfter(Minute - tokens)
    /\ UNCHANGED <<ticker, cycles>>
    /\ BucketFrame

\* The rest of checkForNewIssues takes d clock steps; after the initial
\* check Start creates the ticker.
BucketCycle ==
    /\ pc = "http"
    /\ pc' = "select"
    /\ \E d \in 0..MaxCycleTime :
         /\ tokens' = Refill(tokens, d)
         /\ IF ticker = "none"
              THEN /\ ticker' = "running"
                   /\ untilTick' = pollInterval
                   /\ tickReady' = FALSE
              ELSE /\ TickerAfter(d)
                   /\ UNCHANGED ticker
    /\ UNCHANGED cycles
    /\ BucketFrame

\* Start: the select blocks until the ticker's next tick.
BucketIdle ==
    /\ pc = "select"
    /\ ~tickReady
    /\ tokens' = Refill(tokens, untilTick)
    /\ TickerAfter(untilTick)
    /\ UNCHANGED <<pc, ticker, cycles>>
    /\ BucketFrame

\* Start: the select takes `case <-ticker.C` and calls checkForNewIssues.
BucketTick ==
    /\ pc = "select"
    /\ tickReady
    /\ tickReady' = FALSE
    /\ pc' = "limiter"
    /\ cycles' = Count(cycles)
    /\ UNCHANGED <<ticker, tokens, untilTick>>
    /\ BucketFrame

BucketNext ==
    \/ BucketStart
    \/ BucketWait
    \/ BucketCycle
    \/ BucketIdle
    \/ BucketTick

SpecBucket == BucketInit /\ [][BucketNext]_vars

\* C26: at the start of every cycle the bucket holds a whole token, so the
\* limiter wait takes it without blocking.
C26_TokenAtCycleStart == pc = "limiter" => tokens >= Minute

\* C26 witness: with the shortest poll interval, a tick-driven cycle begins
\* less than a minute after the one before it, the bucket not yet full again.
C26_Witness ==
    /\ pc = "limiter"
    /\ pollInterval = minPollInterval
    /\ cycles = MaxCycles
    /\ tokens < burst * Minute

====
